---- MODULE Spec2Model ----
(***************************************************************************)
(* Model of snpEffWrapper/wrapper.py: the contig / codon-table validator   *)
(* (check_contigs), the pipeline annotate_vcf with its two external        *)
(* subprocesses (run_snpeff), the output classifier (check_annotations)    *)
(* and the result finalizer (move_annotated_vcf, move_summary_csv,         *)
(* delete_temp_database).                                                  *)
(*                                                                         *)
(* A run of annotate_vcf is one sequential process; pc is its position.    *)
(* An exception that nothing catches ends the run: raised names it and     *)
(* pc becomes "done" (wrapper.py has no try/except/finally around any      *)
(* step of annotate_vcf).                                                  *)
(***************************************************************************)
EXTENDS Integers, Sequences, FiniteSets, TLC

\* ------------------------------------------------------------- bounds
\* Number of distinct contig names the input files may mention.
MaxContigs == 2
\* Longest record stream handed to check_annotations on its own.
MaxRecords == 3
\* Longest record stream the external annotator writes inside a pipeline run.
MaxRunRecords == 1
\* Most known tokens inside one record's ANN field.
MaxTokensPerRecord == 1
\* Most known tokens inside one record's ANN field inside a pipeline run
\* (the streams with tokens are those of SpecAnn).
MaxRunTokens == 0

\* ------------------------------------------------------------- values
ContigNames == <<"chr1", "chr2", "chr3", "chr4">>

Contigs == {ContigNames[i] : i \in 1..MaxContigs}

\* The keys a coding table may have: the wildcard and the contig names.
KeyOrder == <<"default">> \o ContigNames

CodingTableKeys == {"default"} \cup Contigs

\* The list check_contigs compares the coding table's values against.
known_encodings ==
    { "Alternative_Flatworm_Mitochondrial", "Alternative_Yeast_Nuclear",
      "Ascidian_Mitochondrial", "Bacterial_and_Plant_Plastid",
      "Blepharisma_Macronuclear", "Chlorophycean_Mitochondrial",
      "Ciliate_Nuclear", "Coelenterate", "Dasycladacean_Nuclear",
      "Echinoderm_Mitochondrial", "Euplotid_Nuclear",
      "Flatworm_Mitochondrial", "Hexamita_Nuclear",
      "Invertebrate_Mitochondrial", "Mitochondrial", "Mold_Mitochondrial",
      "Mycoplasma", "Protozoan_Mitochondrial",
      "Scenedesmus_obliquus_Mitochondrial", "Spiroplasma", "Standard",
      "Thraustochytrium_Mitochondrial", "Trematode_Mitochondrial",
      "Vertebrate_Mitochondrial", "Yeast_Mitochondrial" }

\* The values the coding tables of the model are drawn from: one the list
\* knows and one it does not.
EncodingChoices == {"Standard", "NotARealTable"}

\* The keys of error_map in check_annotations, in the map's order.
error_map ==
    << "WARNING_REF_DOES_NOT_MATCH_GENOME", "WARNING_SEQUENCE_NOT_AVAILABLE",
       "WARNING_TRANSCRIPT_NO_START_CODON", "ERROR_CHROMOSOME_NOT_FOUND",
       "ERROR_OUT_OF_CHROMOSOME_RANGE" >>

Tokens == {error_map[i] : i \in 1..Len(error_map)}

\* Exit statuses of an external process: 0 is success, anything else makes
\* subprocess.check_call raise CalledProcessError.
ExitCodes == {0, 1}

ValidationErrors ==
    {"MissingCodonTableError", "NoCommonContigsError", "UnknownCodingTableError"}

ProcessErrors == {"BuildDatabaseError", "AnnotationError"}

\* ------------------------------------------------------------- state
VARIABLES
    \* args and input files (fixed for the run)
    args_keep, args_debug, output_vcf, annotation_is_gtf,
    vcf_file, annotation_file, coding_table,
    \* control
    pc, raised, steps, warnings,
    \* locals of annotate_vcf and check_contigs
    vcf_contigs, annotation_contigs,
    missing_coding_tables, missing_contigs, unknown_encodings,
    \* the scratch directory
    temp_database_dir, scratch_files,
    \* the external processes
    build_starts, annotate_starts, build_exit, annotate_exit,
    \* the annotated output and what became of it
    annotated_records, error_counter, delivered

args == <<args_keep, args_debug, output_vcf, annotation_is_gtf,
          vcf_file, annotation_file, coding_table>>

validation == <<vcf_contigs, annotation_contigs,
                missing_coding_tables, missing_contigs, unknown_encodings>>

scratch == <<temp_database_dir, scratch_files>>

procs == <<build_starts, annotate_starts, build_exit, annotate_exit>>

outputs == <<annotated_records, error_counter, delivered>>

vars == <<args, pc, raised, steps, warnings, validation, scratch, procs, outputs>>

\* ------------------------------------------------------------- helpers
\* Position of a key in KeyOrder (the order sorted() gives the contig names).
KeyIndex(k) == CHOOSE i \in 1..Len(KeyOrder) : KeyOrder[i] = k

RECURSIVE SortedSeq(_)
\* sorted(contigs): the members of S in ascending order, each once.
SortedSeq(S) ==
    IF S = {} THEN <<>>
    ELSE LET m == CHOOSE x \in S : \A y \in S : KeyIndex(x) <= KeyIndex(y)
         IN <<m>> \o SortedSeq(S \ {m})

\* get_vcf_contigs / get_annotation_contigs: a file is given by the set of
\* first-column values of its lines that do not start with '#'.
get_vcf_contigs(file) == SortedSeq(file)

get_annotation_contigs(file) == SortedSeq(file)

\* _is_gtf decides the name of the copied annotation file.
GenesFile == IF annotation_is_gtf THEN "data/genes.gtf" ELSE "data/genes.gff"

\* The elements of a sequence, as a set.
Range(s) == {s[i] : i \in 1..Len(s)}

\* One warning of the log: what it is about and the contig / value it names.
Warn(kind, subject) == <<kind, subject>>

RECURSIVE WarnAll(_, _)
\* for x in seq: logger.warn(... % x)
WarnAll(kind, seq) ==
    IF seq = <<>> THEN <<>>
    ELSE <<Warn(kind, Head(seq))>> \o WarnAll(kind, Tail(seq))

\* All coding tables of the model: a mapping from some keys to encodings.
CodingTables == UNION {[K -> EncodingChoices] : K \in SUBSET CodingTableKeys}

\* coding_table.values(), in the order of the keys.
CodingTableValues(table) ==
    LET keys == SortedSeq(DOMAIN table)
    IN [i \in 1..Len(keys) |-> table[keys[i]]]

\* ------------------------------------------------------------- records
\* A record of the annotated VCF, as check_annotations sees it: whether
\* record.INFO has the key "ANN" and, if so, which known tokens occur in
\* ",".join(record.INFO["ANN"]).
NoAnn == [has_ann |-> FALSE, ann |-> {}]

Records(maxTokens) ==
    {NoAnn} \cup {[has_ann |-> TRUE, ann |-> T] :
                     T \in {U \in SUBSET Tokens : Cardinality(U) <= maxTokens}}

Streams(maxLen, maxTokens) ==
    UNION {[1..k -> Records(maxTokens)] : k \in 0..maxLen}

\* ------------------------------------------------------------- check_contigs
\* Lines 150-154: the VCF contigs with no coding table, unless the table has
\* the key "default".
MissingCodingTables(contigs, table) ==
    IF "default" \notin DOMAIN table
    THEN SelectSeq(contigs, LAMBDA c : c \notin DOMAIN table)
    ELSE <<>>

\* MissingContigs with the two lists taken the other way round.
MissingContigs_Swapped(contigs, ann_contigs) ==
    SelectSeq(ann_contigs, LAMBDA c : c \notin Range(contigs))

\* Line 159: the VCF contigs the annotation file does not mention.
MissingContigs(contigs, ann_contigs) ==
    SelectSeq(contigs, LAMBDA c : c \notin Range(ann_contigs))

\* Lines 191-193: the values of the coding table that are not known.
UnknownEncodings(table) ==
    SelectSeq(CodingTableValues(table), LAMBDA enc : enc \notin known_encodings)

\* CriticalIssue with the unknown-encoding test moved to the front.
CriticalIssue_UnknownFirst(mct, mc, contigs, ue) ==
    IF Len(ue) > 0 THEN "UnknownCodingTableError"
    ELSE IF Len(mct) > 0 THEN "MissingCodonTableError"
    ELSE IF mc = contigs THEN "NoCommonContigsError"
    ELSE "none"

\* CriticalIssue that wants at least one missing contig before it reports
\* that no contig is common.
CriticalIssue_NonEmptyOnly(mct, mc, contigs, ue) ==
    IF Len(mct) > 0 THEN "MissingCodonTableError"
    ELSE IF Len(mc) > 0 /\ mc = contigs THEN "NoCommonContigsError"
    ELSE IF Len(ue) > 0 THEN "UnknownCodingTableError"
    ELSE "none"

\* Lines 197-209: the exception check_contigs ends with, "none" if it returns.
CriticalIssue(mct, mc, contigs, ue) ==
    IF Len(mct) > 0 THEN "MissingCodonTableError"
    ELSE IF mc = contigs THEN "NoCommonContigsError"
    ELSE IF Len(ue) > 0 THEN "UnknownCodingTableError"
    ELSE "none"

\* ------------------------------------------------------------- check_annotations
RECURSIVE ScanRecords(_, _, _)
\* The loop of lines 386-392 over the records from position i on:
\* annotations is the text last joined from an ANN field, counter the tally.
\* A record with ANN only replaces annotations; a record without it (the
\* KeyError branch) adds 1 to the tally of every token found in annotations.
ScanRecords(records, annotations, counter) ==
    IF records = <<>> THEN counter
    ELSE LET record == Head(records)
         IN IF record.has_ann
            THEN ScanRecords(Tail(records), record.ann, counter)
            ELSE ScanRecords(Tail(records), annotations,
                     [t \in Tokens |-> IF t \in annotations
                                       THEN counter[t] + 1 ELSE counter[t]])

\* Counter(): every tally is 0.
EmptyCounter == [t \in Tokens |-> 0]

\* Lines 393-398: one warning per token with a tally, in the order of
\* error_map, and a closing warning if there was any.
TallyWarnings(counter) ==
    LET tallied == SelectSeq(error_map, LAMBDA t : counter[t] > 0)
    IN WarnAll("instances_of", tallied)
       \o (IF tallied # <<>> THEN <<Warn("problems_during_annotation", "")>>
           ELSE <<>>)

\* ------------------------------------------------------------- Init
\* The state when annotate_vcf is entered: the arguments are parsed, the
\* executables found, nothing has been read or created yet.
Init ==
    /\ args_keep \in BOOLEAN
    /\ args_debug \in BOOLEAN
    /\ output_vcf \in {"file", "stdout"}
    /\ annotation_is_gtf \in BOOLEAN
    /\ vcf_file \in SUBSET Contigs
    /\ annotation_file \in SUBSET Contigs
    /\ coding_table \in CodingTables
    /\ pc = "get_contigs"
    /\ raised = "none"
    /\ steps = <<>>
    /\ warnings = <<>>
    /\ vcf_contigs = <<>>
    /\ annotation_contigs = <<>>
    /\ missing_coding_tables = <<>>
    /\ missing_contigs = <<>>
    /\ unknown_encodings = <<>>
    /\ temp_database_dir = "none"
    /\ scratch_files = {}
    /\ build_starts = 0
    /\ annotate_starts = 0
    /\ build_exit = -1
    /\ annotate_exit = -1
    /\ annotated_records = <<>>
    /\ error_counter = EmptyCounter
    /\ delivered = {}

\* ------------------------------------------------------------- annotate_vcf
\* Lines 436-437: get_annotation_contigs, get_vcf_contigs.
GetContigs ==
    /\ pc = "get_contigs"
    /\ annotation_contigs' = get_annotation_contigs(annotation_file)
    /\ vcf_contigs' = get_vcf_contigs(vcf_file)
    /\ pc' = "check_coding_tables"
    /\ steps' = Append(steps, "get_contigs")
    /\ UNCHANGED <<args, raised, warnings, missing_coding_tables,
                   missing_contigs, unknown_encodings, scratch, procs, outputs>>

\* check_contigs, lines 150-156: check 1 and its warnings.
CheckCodingTables ==
    /\ pc = "check_coding_tables"
    /\ missing_coding_tables' = MissingCodingTables(vcf_contigs, coding_table)
    /\ warnings' = warnings \o WarnAll("no_coding_table", missing_coding_tables')
    /\ pc' = "check_annotation_contigs"
    /\ UNCHANGED <<args, raised, steps, vcf_contigs, annotation_contigs,
                   missing_contigs, unknown_encodings, scratch, procs, outputs>>

\* check_contigs, lines 158-161: check 2 and its warnings.
CheckAnnotationContigs ==
    /\ pc = "check_annotation_contigs"
    /\ missing_contigs' = MissingContigs(vcf_contigs, annotation_contigs)
    /\ warnings' = warnings \o WarnAll("no_annotation_data", missing_contigs')
    /\ pc' = "check_encodings"
    /\ UNCHANGED <<args, raised, steps, vcf_contigs, annotation_contigs,
                   missing_coding_tables, unknown_encodings, scratch, procs,
                   outputs>>

\* check_contigs, lines 163-195: check 3 and its warnings.
CheckEncodings ==
    /\ pc = "check_encodings"
    /\ unknown_encodings' = UnknownEncodings(coding_table)
    /\ warnings' = warnings \o WarnAll("unknown_coding_table", unknown_encodings')
    /\ pc' = "blow_up"
    /\ UNCHANGED <<args, raised, steps, vcf_contigs, annotation_contigs,
                   missing_coding_tables, missing_contigs, scratch, procs,
                   outputs>>

\* BlowUp that records the critical issue and lets annotate_vcf go on.
BlowUp_Continues ==
    /\ pc = "blow_up"
    /\ raised' = CriticalIssue(missing_coding_tables, missing_contigs,
                               vcf_contigs, unknown_encodings)
    /\ pc' = "create_temp_database"
    /\ steps' = Append(steps, "check_contigs")
    /\ UNCHANGED <<args, warnings, validation, scratch, procs, outputs>>

\* check_contigs, lines 197-209: raise for a critical issue, or return to
\* annotate_vcf, which goes on to create_temp_database.
BlowUp ==
    /\ pc = "blow_up"
    /\ raised' = CriticalIssue(missing_coding_tables, missing_contigs,
                               vcf_contigs, unknown_encodings)
    /\ pc' = IF raised' = "none" THEN "create_temp_database" ELSE "done"
    /\ steps' = Append(steps, "check_contigs")
    /\ UNCHANGED <<args, warnings, validation, scratch, procs, outputs>>

\* create_temp_database, lines 212-221: mkdtemp, makedirs data, copy the
\* annotation file to data/genes.gtf or data/genes.gff.
CreateTempDatabase ==
    /\ pc = "create_temp_database"
    /\ temp_database_dir' = "exists"
    /\ scratch_files' = {GenesFile}
    /\ pc' = "create_config_file"
    /\ steps' = Append(steps, "create_temp_database")
    /\ UNCHANGED <<args, raised, warnings, validation, procs, outputs>>

\* create_config_file, lines 228-241: render the template into <scratch>/config.
CreateConfigFile ==
    /\ pc = "create_config_file"
    /\ scratch_files' = scratch_files \cup {"config"}
    /\ pc' = "get_snpeff_output_files"
    /\ steps' = Append(steps, "create_config_file")
    /\ UNCHANGED <<args, raised, warnings, validation, temp_database_dir,
                   procs, outputs>>

\* The files _get_snpeff_output_files creates in the scratch directory: the
\* output file always, the three capture files unless debug.
SnpeffOutputFiles(debug) ==
    {"snpeff_output.vcf"} \cup
    (IF debug THEN {}
     ELSE {"snpeff_build_db.o", "snpeff_build_db.e", "snpeff_annotate.e"})

\* run_snpeff, line 335: _get_snpeff_output_files.
GetSnpeffOutputFiles ==
    /\ pc = "get_snpeff_output_files"
    /\ scratch_files' = scratch_files \cup SnpeffOutputFiles(args_debug)
    /\ pc' = "build"
    /\ UNCHANGED <<args, raised, steps, warnings, validation,
                   temp_database_dir, procs, outputs>>

\* _snpeff_build_database, line 264: the build subprocess is started.
BuildStart ==
    /\ pc = "build"
    /\ build_starts' = build_starts + 1
    /\ pc' = "build_in_progress"
    /\ steps' = Append(steps, "build")
    /\ UNCHANGED <<args, raised, warnings, validation, scratch,
                   annotate_starts, build_exit, annotate_exit, outputs>>

\* AfterBuild that goes on to the annotate step whatever the exit status.
AfterBuild_IgnoresFailure(code) == "annotate"

\* Where run_snpeff goes when the build subprocess has exited with code.
AfterBuild(code) == IF code = 0 THEN "annotate" ELSE "done"

\* _snpeff_build_database, lines 263-266: check_call returns on exit status 0
\* and raises CalledProcessError, turned into BuildDatabaseError, otherwise.
BuildExit ==
    /\ pc = "build_in_progress"
    /\ \E code \in ExitCodes :
          /\ build_exit' = code
          /\ raised' = IF code = 0 THEN "none" ELSE "BuildDatabaseError"
          /\ pc' = AfterBuild(code)
    /\ UNCHANGED <<args, steps, warnings, validation, scratch, build_starts,
                   annotate_starts, annotate_exit, outputs>>

\* _snpeff_annotate, line 296: the annotate subprocess is started.
AnnotateStart ==
    /\ pc = "annotate"
    /\ annotate_starts' = annotate_starts + 1
    /\ pc' = "annotate_in_progress"
    /\ steps' = Append(steps, "annotate")
    /\ UNCHANGED <<args, raised, warnings, validation, scratch, build_starts,
                   build_exit, annotate_exit, outputs>>

\* AfterAnnotate that goes on to the finalizer whatever the exit status.
AfterAnnotate_IgnoresFailure(code) == "check_annotations"

\* Where run_snpeff goes when the annotate subprocess has exited with code.
AfterAnnotate(code) == IF code = 0 THEN "check_annotations" ELSE "done"

\* _snpeff_annotate, lines 295-298, and run_snpeff, lines 356-358: on exit
\* status 0 the annotator has written its records to the output file and its
\* statistics to <output>.csv and snpEff_summary.html; otherwise
\* AnnotationError.
AnnotateExit ==
    /\ pc = "annotate_in_progress"
    /\ \E code \in ExitCodes :
          /\ annotate_exit' = code
          /\ raised' = IF code = 0 THEN "none" ELSE "AnnotationError"
          /\ pc' = AfterAnnotate(code)
          /\ IF code = 0
             THEN /\ annotated_records' \in Streams(MaxRunRecords, MaxRunTokens)
                  /\ scratch_files' = scratch_files \cup
                         {"snpeff_output.vcf.csv", "snpEff_summary.html"}
             ELSE UNCHANGED <<annotated_records, scratch_files>>
    /\ UNCHANGED <<args, steps, warnings, validation, temp_database_dir,
                   build_starts, annotate_starts, build_exit, error_counter,
                   delivered>>

\* check_annotations, lines 371-398: tally, then warn. It never raises.
CheckAnnotations ==
    /\ pc = "check_annotations"
    /\ error_counter' = ScanRecords(annotated_records, {}, EmptyCounter)
    /\ warnings' = warnings \o TallyWarnings(error_counter')
    /\ pc' = "move_annotated_vcf"
    /\ steps' = Append(steps, "check_annotations")
    /\ UNCHANGED <<args, raised, validation, scratch, procs,
                   annotated_records, delivered>>

\* move_annotated_vcf, lines 401-413: print the file to stdout (the file
\* stays where it is), or move it to the named destination.
MoveAnnotatedVcf ==
    /\ pc = "move_annotated_vcf"
    /\ delivered' = delivered \cup {"annotated_vcf"}
    /\ scratch_files' = IF output_vcf = "stdout" THEN scratch_files
                        ELSE scratch_files \ {"snpeff_output.vcf"}
    /\ pc' = "move_summary_csv"
    /\ steps' = Append(steps, "move_annotated_vcf")
    /\ UNCHANGED <<args, raised, warnings, validation, temp_database_dir,
                   procs, annotated_records, error_counter>>

\* move_summary_csv, lines 416-426: with stdout only a log line is written
\* ("Now dumping CSV to stdout") and nothing is read or printed; otherwise
\* <output>.csv is moved to <destination>.csv.
MoveSummaryCsv ==
    /\ pc = "move_summary_csv"
    /\ delivered' = IF output_vcf = "stdout" THEN delivered
                    ELSE delivered \cup {"summary_csv"}
    /\ scratch_files' = IF output_vcf = "stdout" THEN scratch_files
                        ELSE scratch_files \ {"snpeff_output.vcf.csv"}
    /\ pc' = "cleanup"
    /\ steps' = Append(steps, "move_summary_csv")
    /\ UNCHANGED <<args, raised, warnings, validation, temp_database_dir,
                   procs, annotated_records, error_counter>>

\* DeletesTempDatabase that does not look at the flag.
DeletesTempDatabase_Always(keep) == TRUE

\* Whether lines 456-459 call delete_temp_database.
DeletesTempDatabase(keep) == ~keep

\* annotate_vcf, lines 456-459: keep the scratch directory, or
\* delete_temp_database (shutil.rmtree).
Cleanup ==
    /\ pc = "cleanup"
    /\ IF DeletesTempDatabase(args_keep)
       THEN /\ temp_database_dir' = "deleted"
            /\ scratch_files' = {}
            /\ steps' = Append(steps, "delete_temp_database")
       ELSE UNCHANGED <<temp_database_dir, scratch_files, steps>>
    /\ pc' = "done"
    /\ UNCHANGED <<args, raised, warnings, validation, procs, outputs>>

Next ==
    \/ GetContigs
    \/ CheckCodingTables
    \/ CheckAnnotationContigs
    \/ CheckEncodings
    \/ BlowUp
    \/ CreateTempDatabase
    \/ CreateConfigFile
    \/ GetSnpeffOutputFiles
    \/ BuildStart
    \/ BuildExit
    \/ AnnotateStart
    \/ AnnotateExit
    \/ CheckAnnotations
    \/ MoveAnnotatedVcf
    \/ MoveSummaryCsv
    \/ Cleanup

Spec == Init /\ [][Next]_vars

\* ------------------------------------------------------------- check_annotations alone
\* check_annotations as a function of the record stream: the state of a run
\* whose validation, build and annotate steps succeeded, with any stream of
\* up to MaxRecords records in the annotated output.
InitAnn ==
    /\ args_keep = FALSE
    /\ args_debug = FALSE
    /\ output_vcf = "file"
    /\ annotation_is_gtf = FALSE
    /\ vcf_file = Contigs
    /\ annotation_file = Contigs
    /\ coding_table = [k \in {"default"} |-> "Standard"]
    /\ pc = "check_annotations"
    /\ raised = "none"
    /\ steps = <<"get_contigs", "check_contigs", "create_temp_database",
                 "create_config_file", "build", "annotate">>
    /\ warnings = <<>>
    /\ vcf_contigs = get_vcf_contigs(Contigs)
    /\ annotation_contigs = get_annotation_contigs(Contigs)
    /\ missing_coding_tables = <<>>
    /\ missing_contigs = <<>>
    /\ unknown_encodings = <<>>
    /\ temp_database_dir = "exists"
    /\ scratch_files = {"data/genes.gff", "config"} \cup SnpeffOutputFiles(FALSE)
                         \cup {"snpeff_output.vcf.csv", "snpEff_summary.html"}
    /\ build_starts = 1
    /\ annotate_starts = 1
    /\ build_exit = 0
    /\ annotate_exit = 0
    /\ annotated_records \in Streams(MaxRecords, MaxTokensPerRecord)
    /\ error_counter = EmptyCounter
    /\ delivered = {}

NextAnn == CheckAnnotations

SpecAnn == InitAnn /\ [][NextAnn]_vars

\* ------------------------------------------------------------- claims
\* check_contigs has run to its end: it raised or it returned.
CheckContigsDone == "check_contigs" \in Range(steps)

\* What check_contigs ended with: the validation error, "none" if it returned.
CheckContigsOutcome == IF raised \in ValidationErrors THEN raised ELSE "none"

\* How often the log holds the warning of this kind about this subject.
WarningCount(kind, subject) ==
    Cardinality({i \in 1..Len(warnings) : warnings[i] = <<kind, subject>>})

\* How many warnings of this kind the log holds.
KindCount(kind) ==
    Cardinality({i \in 1..Len(warnings) : warnings[i][1] = kind})

\* The three conditions of check_contigs, stated on the input files and the
\* coding table.
ContigsWithoutTable ==
    IF "default" \in DOMAIN coding_table THEN {}
    ELSE {c \in vcf_file : c \notin DOMAIN coding_table}

ContigsWithoutAnnotation == {c \in vcf_file : c \notin annotation_file}

KeysWithUnknownEncoding ==
    {k \in DOMAIN coding_table : coding_table[k] \notin known_encodings}

NoContigInCommon == \A c \in vcf_file : c \notin annotation_file

\* C1: with args.keep unset, a run that ended in BuildDatabaseError or
\* AnnotationError has deleted the scratch directory by the time it ends.
C1_ScratchDeletedOnProcessError ==
    (pc = "done" /\ ~args_keep /\ raised \in ProcessErrors)
        => temp_database_dir = "deleted"

\* C2: the annotate subprocess is started only after the build subprocess
\* exited with status 0; each subprocess is started at most once; a non-zero
\* build exit ends the run in BuildDatabaseError with the annotate step never
\* started, a non-zero annotate exit ends it in AnnotationError.
C2_BuildThenAnnotate ==
    /\ build_starts <= 1
    /\ annotate_starts <= 1
    /\ annotate_starts > 0 => (build_starts = 1 /\ build_exit = 0)
    /\ build_exit \notin {-1, 0} =>
          (pc = "done" /\ raised = "BuildDatabaseError" /\ annotate_starts = 0
           /\ annotate_exit = -1)
    /\ annotate_exit \notin {-1, 0} =>
          (pc = "done" /\ raised = "AnnotationError")
    /\ raised = "BuildDatabaseError" => build_exit \notin {-1, 0}
    /\ raised = "AnnotationError" => annotate_exit \notin {-1, 0}

C2_Witness ==
    /\ pc = "done"
    /\ build_starts = 1 /\ build_exit = 0
    /\ annotate_starts = 1 /\ annotate_exit = 1
    /\ raised = "AnnotationError"

\* C3: when check_contigs raises a validation error, no scratch directory has
\* been created, no config written, no external process started and no output
\* moved; and none of these happens on any run before check_contigs has
\* returned.
C3_ValidationBeforeSideEffects ==
    LET untouched == /\ temp_database_dir = "none"
                     /\ scratch_files = {}
                     /\ build_starts = 0
                     /\ annotate_starts = 0
                     /\ delivered = {}
    IN /\ raised \in ValidationErrors => untouched
       /\ ~CheckContigsDone => untouched

C3_Witness ==
    /\ pc = "done"
    /\ raised = "UnknownCodingTableError"
    /\ KindCount("unknown_coding_table") > 0
    /\ temp_database_dir = "none"

\* C4: once check_contigs has ended, the log holds all warnings of all three
\* checks (one per VCF contig without a coding table when there is no
\* "default" key, one per VCF contig absent from the annotation contigs, one
\* per coding-table entry with an unknown value), also when it raised; and it
\* raised the first applicable of MissingCodonTableError,
\* NoCommonContigsError, UnknownCodingTableError, or returned if none applies.
C4_AllWarningsThenFirstError ==
    CheckContigsDone =>
      /\ \A c \in Contigs :
            /\ WarningCount("no_coding_table", c) =
                  (IF c \in ContigsWithoutTable THEN 1 ELSE 0)
            /\ WarningCount("no_annotation_data", c) =
                  (IF c \in ContigsWithoutAnnotation THEN 1 ELSE 0)
      /\ \A e \in EncodingChoices :
            WarningCount("unknown_coding_table", e) =
               Cardinality({k \in KeysWithUnknownEncoding : coding_table[k] = e})
      /\ KindCount("no_coding_table") = Cardinality(ContigsWithoutTable)
      /\ KindCount("no_annotation_data") = Cardinality(ContigsWithoutAnnotation)
      /\ KindCount("unknown_coding_table") = Cardinality(KeysWithUnknownEncoding)
      /\ CheckContigsOutcome =
            (IF ContigsWithoutTable # {} THEN "MissingCodonTableError"
             ELSE IF NoContigInCommon THEN "NoCommonContigsError"
             ELSE IF KeysWithUnknownEncoding # {} THEN "UnknownCodingTableError"
             ELSE "none")

C4_Witness ==
    /\ pc = "done"
    /\ raised = "MissingCodonTableError"
    /\ NoContigInCommon
    /\ KeysWithUnknownEncoding # {}
    /\ KindCount("no_coding_table") > 0
    /\ KindCount("no_annotation_data") > 0
    /\ KindCount("unknown_coding_table") > 0

\* C5: with a coding table that passes checks 1 and 3, check_contigs raises
\* NoCommonContigsError when no VCF contig is among the annotation contigs,
\* and otherwise returns with exactly one 'no annotation data' warning per
\* VCF contig that is not among the annotation contigs.
C5_OverlapDecides ==
    (CheckContigsDone /\ ContigsWithoutTable = {} /\ KeysWithUnknownEncoding = {})
      => IF vcf_file \cap annotation_file = {}
         THEN CheckContigsOutcome = "NoCommonContigsError"
         ELSE /\ CheckContigsOutcome = "none"
              /\ KindCount("no_annotation_data") =
                    Cardinality(vcf_file \ annotation_file)
              /\ \A c \in Contigs :
                    WarningCount("no_annotation_data", c) =
                       (IF c \in vcf_file \ annotation_file THEN 1 ELSE 0)

C5_Witness ==
    /\ pc = "create_temp_database"
    /\ "default" \in DOMAIN coding_table
    /\ vcf_file \cap annotation_file # {}
    /\ vcf_file \ annotation_file # {}
    /\ warnings = <<Warn("no_annotation_data", "chr1")>>

\* C6: on a run that ended in a fatal error, neither move_annotated_vcf nor
\* move_summary_csv was executed and nothing reached the destination.
C6_NoOutputOnFatalError ==
    raised # "none" =>
       /\ pc = "done"
       /\ delivered = {}
       /\ "move_annotated_vcf" \notin Range(steps)
       /\ "move_summary_csv" \notin Range(steps)

C6_Witness ==
    /\ pc = "done"
    /\ raised = "AnnotationError"
    /\ "snpeff_output.vcf" \in scratch_files
    /\ delivered = {}

\* C7: when ERROR_CHROMOSOME_NOT_FOUND occurs in the ANN field of a record
\* of the stream, check_annotations ends with a tally of exactly 1 for it and
\* has emitted its warning exactly once.
C7_ChromosomeNotFoundTalliedOnce ==
    ( /\ "check_annotations" \in Range(steps)
      /\ \E i \in 1..Len(annotated_records) :
            /\ annotated_records[i].has_ann
            /\ "ERROR_CHROMOSOME_NOT_FOUND" \in annotated_records[i].ann )
      => /\ error_counter["ERROR_CHROMOSOME_NOT_FOUND"] = 1
         /\ WarningCount("instances_of", "ERROR_CHROMOSOME_NOT_FOUND") = 1

\* C8: on a successful run, for a named file and for standard output alike,
\* the annotated VCF and the statistics report have both reached the
\* destination before the scratch directory is deleted.
C8_BothOutputsDeliveredBeforeDelete ==
    /\ (pc = "done" /\ raised = "none")
          => {"annotated_vcf", "summary_csv"} \subseteq delivered
    /\ temp_database_dir = "deleted"
          => {"annotated_vcf", "summary_csv"} \subseteq delivered

\* The steps of a successful run up to the decision about the scratch
\* directory.
SuccessSteps ==
    <<"get_contigs", "check_contigs", "create_temp_database",
      "create_config_file", "build", "annotate", "check_annotations",
      "move_annotated_vcf", "move_summary_csv">>

\* C9: after a successful run the scratch directory exists if and only if
\* args.keep was set; kept, it still holds data/genes.gtf or data/genes.gff
\* and config; and the flag changes nothing else: the steps before the
\* decision and what was delivered do not depend on it.
C9_RetentionOnly ==
    (pc = "done" /\ raised = "none") =>
       /\ temp_database_dir = (IF args_keep THEN "exists" ELSE "deleted")
       /\ args_keep =>
             /\ {GenesFile, "config"} \subseteq scratch_files
             /\ steps = SuccessSteps
       /\ ~args_keep =>
             /\ scratch_files = {}
             /\ steps = Append(SuccessSteps, "delete_temp_database")
       /\ "annotated_vcf" \in delivered
       /\ "summary_csv" \in delivered <=> output_vcf = "file"

C9_Witness ==
    /\ pc = "done"
    /\ raised = "none"
    /\ args_keep
    /\ temp_database_dir = "exists"
    /\ {"data/genes.gtf", "config"} \subseteq scratch_files

\* C10: with no contig in the VCF, check_contigs raises NoCommonContigsError
\* whatever the annotation contigs and the coding table are, without a
\* 'no coding table' or 'no annotation data' warning, and ahead of an
\* UnknownCodingTableError.
C10_EmptyVcfRaisesNoCommonContigs ==
    (CheckContigsDone /\ vcf_file = {}) =>
       /\ pc = "done"
       /\ raised = "NoCommonContigsError"
       /\ KindCount("no_coding_table") = 0
       /\ KindCount("no_annotation_data") = 0

C10_Witness ==
    /\ pc = "done"
    /\ vcf_file = {}
    /\ annotation_file # {}
    /\ raised = "NoCommonContigsError"
    /\ KindCount("unknown_coding_table") > 0

====
